---- MODULE Spec2Model ----
(***************************************************************************)
(* Model of the contact-manager (m12-task-01.py): the field classes Phone  *)
(* and Birthday, Record, AddressBook, the command handlers and the command *)
(* loop of main().                                                         *)
(*                                                                         *)
(* A Python str is a sequence of one-character strings.  An operation that *)
(* may raise returns a record whose field exc names the exception          *)
(* ("None" when it returned normally) and whose other fields hold what the *)
(* operation leaves behind.                                                *)
(*                                                                         *)
(*   SpecAPI  a client calling the methods of AddressBook and Record and   *)
(*            the handlers add_contact / change_contact directly           *)
(*   Spec     the command loop of main() fed with input lines              *)
(***************************************************************************)
EXTENDS Integers, Sequences, FiniteSets, TLC

VARIABLES book, pc, last

vars == <<book, pc, last>>

(***************************************************************************)
(* Bounds and input alphabets                                              *)
(***************************************************************************)
\* SpecAPI: add_phone is not called on a record that already has this many phones
MaxPhones == 2

NoExc == "None"

DigitSeq == <<"0", "1", "2", "3", "4", "5", "6", "7", "8", "9">>
UpperSeq == <<"A", "B", "C", "D", "E", "F", "G", "H", "I", "J", "K", "L", "M",
              "N", "O", "P", "Q", "R", "S", "T", "U", "V", "W", "X", "Y", "Z">>
LowerSeq == <<"a", "b", "c", "d", "e", "f", "g", "h", "i", "j", "k", "l", "m",
              "n", "o", "p", "q", "r", "s", "t", "u", "v", "w", "x", "y", "z">>
Whitespace == {" ", "\t"}

Range(s) == {s[i] : i \in DOMAIN s}

\* str.isdigit() on the (ASCII) input alphabet: non-empty and all digits
isdigit(s) == Len(s) > 0 /\ \A i \in DOMAIN s : s[i] \in Range(DigitSeq)

\* value of a digit character
DigitVal(c) == (CHOOSE i \in DOMAIN DigitSeq : DigitSeq[i] = c) - 1

RECURSIVE ToInt(_)
\* int() of a string of digits
ToInt(s) == IF Len(s) = 0 THEN 0
            ELSE 10 * ToInt(SubSeq(s, 1, Len(s) - 1)) + DigitVal(s[Len(s)])

\* str.lower() of one character
LowerChar(c) == IF \E i \in DOMAIN UpperSeq : UpperSeq[i] = c
                THEN LowerSeq[CHOOSE i \in DOMAIN UpperSeq : UpperSeq[i] = c]
                ELSE c

lower(s) == [i \in DOMAIN s |-> LowerChar(s[i])]

RECURSIVE SplitFrom(_, _, _, _)
\* the fields of s from position i on, field being the field read so far
SplitFrom(s, seps, i, field) ==
    IF i > Len(s) THEN <<field>>
    ELSE IF s[i] \in seps THEN <<field>> \o SplitFrom(s, seps, i + 1, <<>>)
    ELSE SplitFrom(s, seps, i + 1, Append(field, s[i]))

\* s.split(sep) for the separator set seps, empty fields kept
SplitOn(s, seps) == SplitFrom(s, seps, 1, <<>>)

\* user_input.split(): fields separated by runs of whitespace, no empty fields
split(s) == SelectSeq(SplitOn(s, Whitespace), LAMBDA t : Len(t) > 0)

RECURSIVE JoinWith(_, _)
\* sep.join(parts)
JoinWith(parts, sep) ==
    IF Len(parts) = 0 THEN <<>>
    ELSE IF Len(parts) = 1 THEN parts[1]
    ELSE parts[1] \o sep \o JoinWith(Tail(parts), sep)

(***************************************************************************)
(* datetime: a calendar day (proleptic Gregorian ordinal, day 1 =          *)
(* 0001-01-01, a Monday) and a time of day in seconds                      *)
(***************************************************************************)
IsLeap(y) == (y % 4 = 0) /\ ((y % 100 # 0) \/ (y % 400 = 0))

DaysInMonth(y, m) ==
    IF m = 2 THEN (IF IsLeap(y) THEN 29 ELSE 28)
    ELSE IF m \in {4, 6, 9, 11} THEN 30 ELSE 31

RECURSIVE DaysBeforeMonth(_, _)
DaysBeforeMonth(y, m) ==
    IF m = 1 THEN 0 ELSE DaysBeforeMonth(y, m - 1) + DaysInMonth(y, m - 1)

DaysBeforeYear(y) ==
    (y - 1) * 365 + ((y - 1) \div 4) - ((y - 1) \div 100) + ((y - 1) \div 400)

toordinal(y, m, d) == DaysBeforeYear(y) + DaysBeforeMonth(y, m) + d

\* datetime.weekday(): Monday = 0 ... Sunday = 6
weekday(dt) == (dt.ord + 6) % 7

\* datetime + timedelta(days = n)
PlusDays(dt, n) == [dt EXCEPT !.ord = @ + n]

\* datetime <= datetime
DtLeq(a, b) == a.ord < b.ord \/ (a.ord = b.ord /\ a.tod <= b.tod)

\* the directives of the format "%d.%m.%Y" as _strptime's regular expressions
MatchDay(s) ==
    \/ Len(s) = 2 /\ s[1] = "3" /\ s[2] \in {"0", "1"}
    \/ Len(s) = 2 /\ s[1] \in {"1", "2"} /\ s[2] \in Range(DigitSeq)
    \/ Len(s) = 2 /\ s[1] = "0" /\ s[2] \in Range(DigitSeq) \ {"0"}
    \/ Len(s) = 1 /\ s[1] \in Range(DigitSeq) \ {"0"}
    \/ Len(s) = 2 /\ s[1] = " " /\ s[2] \in Range(DigitSeq) \ {"0"}

MatchMonth(s) ==
    \/ Len(s) = 2 /\ s[1] = "1" /\ s[2] \in {"0", "1", "2"}
    \/ Len(s) = 2 /\ s[1] = "0" /\ s[2] \in Range(DigitSeq) \ {"0"}
    \/ Len(s) = 1 /\ s[1] \in Range(DigitSeq) \ {"0"}

MatchYear(s) == Len(s) = 4 /\ isdigit(s)

\* datetime.strptime(value, "%d.%m.%Y"): exc "ValueError" or the parsed datetime
strptime(value) ==
    LET parts == SplitOn(value, {"."})
        bad   == [exc |-> "ValueError", dt |-> [ord |-> 0, tod |-> 0]]
    IN  IF Len(parts) # 3 THEN bad
        ELSE IF ~(MatchDay(parts[1]) /\ MatchMonth(parts[2]) /\ MatchYear(parts[3]))
        THEN bad
        ELSE LET d == ToInt(SelectSeq(parts[1], LAMBDA c : c # " "))
                 m == ToInt(parts[2])
                 y == ToInt(parts[3])
             IN  IF y < 1 \/ d > DaysInMonth(y, m) THEN bad
                 ELSE [exc |-> NoExc, dt |-> [ord |-> toordinal(y, m, d), tod |-> 0]]

(***************************************************************************)
(* Field classes                                                           *)
(***************************************************************************)
\* Phone.__init__: the field, or ValueError
Phone(value) ==
    IF ~(isdigit(value) /\ Len(value) = 10)
    THEN [exc |-> "ValueError", msg |-> "Invalid phone number format.", value |-> value]
    ELSE [exc |-> NoExc, msg |-> "", value |-> value]

\* Birthday.__init__: the field (the string as given), or ValueError
Birthday(value) ==
    IF strptime(value).exc # NoExc
    THEN [exc |-> "ValueError", msg |-> "Invalid birthday format. Use DD.MM.YYYY.",
          value |-> value]
    ELSE [exc |-> NoExc, msg |-> "", value |-> value]

(***************************************************************************)
(* Record: name, list of phone values, birthday (<<>> is None, <<v>> is a  *)
(* Birthday whose value is v)                                              *)
(***************************************************************************)
Record(name) == [name |-> name, phones |-> <<>>, birthday |-> <<>>]

\* add_phone as it would be if it appended before validating
add_phone_append_first(self, phone) ==
    LET p == Phone(phone)
    IN  [exc |-> p.exc, msg |-> p.msg, self |-> [self EXCEPT !.phones = Append(@, phone)]]

\* self.phones.append(Phone(phone))
add_phone(self, phone) ==
    LET p == Phone(phone)
    IN  IF p.exc # NoExc THEN [exc |-> p.exc, msg |-> p.msg, self |-> self]
        ELSE [exc |-> NoExc, msg |-> "",
              self |-> [self EXCEPT !.phones = Append(@, p.value)]]

\* index of the first phone whose value equals phone, 0 if there is none
FirstIndex(phones, phone) ==
    IF \E i \in DOMAIN phones : phones[i] = phone
    THEN CHOOSE i \in DOMAIN phones :
             phones[i] = phone /\ \A j \in 1..(i - 1) : phones[j] # phone
    ELSE 0

\* removes the first phone whose value equals phone; nothing if there is none
remove_phone(self, phone) ==
    LET i == FirstIndex(self.phones, phone)
    IN  IF i = 0 THEN self
        ELSE [self EXCEPT !.phones = SubSeq(@, 1, i - 1) \o SubSeq(@, i + 1, Len(@))]

\* edit_phone as it would be without the return: every occurrence is replaced
edit_phone_all(self, old_phone, new_phone) ==
    [self EXCEPT !.phones = [i \in DOMAIN @ |-> IF @[i] = old_phone THEN new_phone ELSE @[i]]]

\* p.value = new_phone on the first phone whose value equals old_phone
edit_phone(self, old_phone, new_phone) ==
    LET i == FirstIndex(self.phones, old_phone)
    IN  IF i = 0 THEN self
        ELSE [self EXCEPT !.phones[i] = new_phone]

\* Record.add_birthday: self.birthday = Birthday(birthday)
Record_add_birthday(self, birthday) ==
    LET b == Birthday(birthday)
    IN  IF b.exc # NoExc THEN [exc |-> b.exc, msg |-> b.msg, self |-> self]
        ELSE [exc |-> NoExc, msg |-> "", self |-> [self EXCEPT !.birthday = <<b.value>>]]

NoneStr == <<"N", "o", "n", "e">>

\* str(record.birthday)
BirthdayStr(birthday) == IF birthday = <<>> THEN NoneStr ELSE birthday[1]

\* Record.__str__: the three interpolated fields of
\* "Contact name: {name}, phones: {phones_str}, birthday: {birthday}"
Record_str(self) ==
    <<self.name, JoinWith(self.phones, <<";", " ">>), BirthdayStr(self.birthday)>>

(***************************************************************************)
(* AddressBook: the dict self.data as the sequence of its items in         *)
(* iteration (insertion) order, each [key, record]                         *)
(***************************************************************************)
KeyIndex(b, key) ==
    IF \E i \in DOMAIN b : b[i].key = key
    THEN CHOOSE i \in DOMAIN b : b[i].key = key
    ELSE 0

\* self.data[key] = record: a present key keeps its position
SetItem(b, key, record) ==
    IF KeyIndex(b, key) = 0 THEN Append(b, [key |-> key, record |-> record])
    ELSE [b EXCEPT ![KeyIndex(b, key)].record = record]

\* add_record as self.data.setdefault(...): the first record under a name stays
add_record_setdefault(b, record) ==
    IF KeyIndex(b, record.name) = 0 THEN SetItem(b, record.name, record) ELSE b

add_record(b, record) == SetItem(b, record.name, record)

\* self.data.get(name): <<>> is None, <<r>> the record
find(b, name) == IF KeyIndex(b, name) = 0 THEN <<>> ELSE <<b[KeyIndex(b, name)].record>>

\* delete as it would be with popitem(): the last item goes, whatever its key
delete_popitem(b, name) ==
    IF KeyIndex(b, name) # 0 THEN SubSeq(b, 1, Len(b) - 1) ELSE b

delete(b, name) ==
    IF KeyIndex(b, name) # 0 THEN SelectSeq(b, LAMBDA e : e.key # name) ELSE b

next_week_start(today) == PlusDays(today, (6 - weekday(today)) + 7)

next_week_end(today) == PlusDays(next_week_start(today), 6)

\* f"{name}: {record.birthday}"
BirthdayEntry(name, record) == name \o <<":", " ">> \o BirthdayStr(record.birthday)

RECURSIVE get_birthdays_per_week(_, _)
\* the entries of the records whose birthday, read as a full date, lies between
\* next_week_start and next_week_end (datetime comparison), in iteration order
get_birthdays_per_week(b, today) ==
    IF Len(b) = 0 THEN <<>>
    ELSE LET e    == b[1]
             rest == get_birthdays_per_week(Tail(b), today)
         IN  IF e.record.birthday # <<>>
                /\ DtLeq(next_week_start(today), strptime(e.record.birthday[1]).dt)
                /\ DtLeq(strptime(e.record.birthday[1]).dt, next_week_end(today))
             THEN <<BirthdayEntry(e.key, e.record)>> \o rest
             ELSE rest

(***************************************************************************)
(* Command handlers.  A handler body returns [exc, msg, ret, book]: the    *)
(* exception it raised (msg its text), the value it returned and the book  *)
(* as the handler left it.  ret is [head, body]: the literal text of the   *)
(* message and the values interpolated into it.                            *)
(***************************************************************************)
NoRet == [head |-> "None", body |-> <<>>]

Raise(exc, msg, b) == [exc |-> exc, msg |-> msg, ret |-> NoRet, book |-> b]

Return(head, body, b) ==
    [exc |-> NoExc, msg |-> "", ret |-> [head |-> head, body |-> body], book |-> b]

\* the decorator: a ValueError of the body becomes the return value "Error: {e}"
input_error(res) ==
    IF res.exc = "ValueError" THEN Return("Error: ", <<res.msg>>, res.book) ELSE res

\* the record found under name, changed in place through the reference find returned
Mutate(b, name, record) == [b EXCEPT ![KeyIndex(b, name)].record = record]

\* add_contact as it would be if it added the phone to a record already there
add_contact_merge(args, b) ==
    input_error(
        IF Len(args) = 2
        THEN LET name   == args[1]
                 phone  == args[2]
                 record == add_phone(IF find(b, name) # <<>> THEN find(b, name)[1]
                                     ELSE Record(name), phone)
             IN  IF record.exc # NoExc THEN Raise(record.exc, record.msg, b)
                 ELSE Return("Contact added: ", Record_str(record.self),
                             add_record(b, record.self))
        ELSE Raise("ValueError", "Invalid command. Please provide both name and phone.", b))

add_contact(args, b) ==
    input_error(
        IF Len(args) = 2
        THEN LET name   == args[1]
                 phone  == args[2]
                 record == add_phone(Record(name), phone)
             IN  IF record.exc # NoExc THEN Raise(record.exc, record.msg, b)
                 ELSE Return("Contact added: ", Record_str(record.self),
                             add_record(b, record.self))
        ELSE Raise("ValueError", "Invalid command. Please provide both name and phone.", b))

change_contact(args, b) ==
    input_error(
        IF Len(args) = 2
        THEN LET name   == args[1]
                 phone  == args[2]
                 record == find(b, name)
             IN  IF record # <<>>
                 THEN IF Len(record[1].phones) = 0
                      THEN Raise("IndexError", "list index out of range", b)
                      ELSE LET r == edit_phone(record[1], record[1].phones[1], phone)
                           IN  Return("Contact updated: ", Record_str(r), Mutate(b, name, r))
                 ELSE Raise("ValueError", "Contact with name not found.", b)
        ELSE Raise("ValueError", "Invalid command. Please provide both name and phone.", b))

show_phone(args, b) ==
    input_error(
        IF Len(args) = 1
        THEN LET name   == args[1]
                 record == find(b, name)
             IN  IF record # <<>>
                 THEN IF Len(record[1].phones) = 0
                      THEN Raise("IndexError", "list index out of range", b)
                      ELSE Return("Phone for ", <<name, record[1].phones[1]>>, b)
                 ELSE Raise("ValueError", "Contact with name not found.", b)
        ELSE Raise("ValueError", "Invalid command. Please provide the name.", b))

\* prints every record and returns None, or returns the text for an empty book;
\* printed is what the handler itself printed
show_all(b) ==
    IF Len(b) > 0
    THEN [exc |-> NoExc, msg |-> "", ret |-> NoRet, book |-> b,
          printed |-> [i \in DOMAIN b |->
                          [head |-> "Contact name: ", body |-> Record_str(b[i].record)]]]
    ELSE [exc |-> NoExc, msg |-> "", book |-> b, printed |-> <<>>,
          ret |-> [head |-> "No contacts available.", body |-> <<>>]]

add_birthday(args, b) ==
    input_error(
        IF Len(args) = 2
        THEN LET name     == args[1]
                 birthday == args[2]
                 record   == find(b, name)
             IN  IF record # <<>>
                 THEN LET r == Record_add_birthday(record[1], birthday)
                      IN  IF r.exc # NoExc THEN Raise(r.exc, r.msg, b)
                          ELSE Return("Birthday added for ",
                                      <<name, BirthdayStr(r.self.birthday)>>,
                                      Mutate(b, name, r.self))
                 ELSE Raise("ValueError", "Contact with name not found.", b)
        ELSE Raise("ValueError", "Invalid command. Please provide both name and birthday.", b))

show_birthday(args, b) ==
    input_error(
        IF Len(args) = 1
        THEN LET name   == args[1]
                 record == find(b, name)
             IN  IF record # <<>>
                 THEN Return("Birthday for ", <<name, BirthdayStr(record[1].birthday)>>, b)
                 ELSE Raise("ValueError", "Contact with name not found.", b)
        ELSE Raise("ValueError", "Invalid command. Please provide the name.", b))

birthdays(b, today) ==
    input_error(
        LET upcoming_birthdays == get_birthdays_per_week(b, today)
        IN  IF Len(upcoming_birthdays) > 0
            THEN Return("Upcoming birthdays:", upcoming_birthdays, b)
            ELSE Return("No upcoming birthdays in the next week.", <<>>, b))

(***************************************************************************)
(* Inputs                                                                  *)
(***************************************************************************)
Al == <<"A", "l">>
Bo == <<"B", "o">>
Names == {Al, Bo}

P1     == <<"1", "2", "3", "4", "5", "6", "7", "8", "9", "0">>
P2     == <<"0", "9", "8", "7", "6", "5", "4", "3", "2", "1">>
PShort == <<"1", "2", "3", "4", "5">>
PAlpha == <<"1", "2", "3", "4", "5", "6", "7", "8", "9", "x">>

\* 14.01.2024 (a Sunday), 20.01.2024 (Saturday), 21.01.2024 (Sunday), 30.02.2024
B14    == <<"1", "4", ".", "0", "1", ".", "2", "0", "2", "4">>
B20    == <<"2", "0", ".", "0", "1", ".", "2", "0", "2", "4">>
B21    == <<"2", "1", ".", "0", "1", ".", "2", "0", "2", "4">>
BFeb30 == <<"3", "0", ".", "0", "2", ".", "2", "0", "2", "4">>

NoDay == [ord |-> 0, tod |-> 0]

\* what the last call (SpecAPI) or the last loop iteration (Spec) was:
\* the operation, its string arguments, its record argument, its outcome,
\* the book before it, and the clock reading it took
NoLast == [op |-> "init", args |-> <<>>, rec |-> <<>>,
           out |-> [exc |-> NoExc, ret |-> <<>>], pre |-> <<>>, today |-> NoDay]

Init == book = <<>> /\ pc = "running" /\ last = NoLast

(***************************************************************************)
(* SpecAPI: a client calls the library.  Record methods are called on the  *)
(* record find(name) returned, so the client checks presence first.        *)
(***************************************************************************)
\* Argument tuples offered to the calls.  The record named Al receives every
\* kind of call; the record named Bo is the other entry of the book and
\* receives fewer.
AddPhoneArgs ==
    {<<Al, P1>>, <<Al, P2>>, <<Al, PShort>>, <<Al, PAlpha>>, <<Bo, P2>>, <<Bo, PShort>>}
RemovePhoneArgs == {<<Al, P1>>, <<Al, P2>>, <<Al, PShort>>, <<Bo, P1>>}
EditPhoneArgs ==
    {<<Al, o, n>> : o \in {P1, P2, PShort}, n \in {P1, P2, PShort}} \cup {<<Bo, P1, P2>>}
BirthdayArgs == {<<Al, B14>>, <<Al, BFeb30>>, <<Bo, B14>>, <<Bo, BFeb30>>}
ContactArgs ==
    {<<Al, P1>>, <<Al, PShort>>, <<Al, PAlpha>>, <<Bo, P2>>, <<Bo, PShort>>, <<Al>>}
ChangeArgs == {<<Al, P2>>, <<Al, PShort>>, <<Bo, P1>>, <<Al>>}

\* records a client has built with Record, add_phone and add_birthday
RecInputs ==
    { Record(Al),
      [name |-> Al, phones |-> <<P2, P1>>, birthday |-> <<B14>>],
      [name |-> Bo, phones |-> <<P1>>, birthday |-> <<>>] }

Called(op, args, rec, exc, ret) ==
    last' = [op |-> op, args |-> args, rec |-> rec,
             out |-> [exc |-> exc, ret |-> ret], pre |-> book, today |-> NoDay]

Call_add_record ==
    \E r \in RecInputs :
        /\ book' = add_record(book, r)
        /\ Called("add_record", <<>>, <<r>>, NoExc, <<>>)
        /\ UNCHANGED pc

Call_find ==
    \E name \in Names :
        /\ Called("find", <<name>>, <<>>, NoExc, find(book, name))
        /\ UNCHANGED <<book, pc>>

Call_delete ==
    \E name \in Names :
        /\ book' = delete(book, name)
        /\ Called("delete", <<name>>, <<>>, NoExc, <<>>)
        /\ UNCHANGED pc

Call_add_phone ==
    \E args \in AddPhoneArgs :
        /\ find(book, args[1]) # <<>>
        /\ Len(find(book, args[1])[1].phones) < MaxPhones
        /\ LET r == add_phone(find(book, args[1])[1], args[2])
           IN  /\ book' = Mutate(book, args[1], r.self)
               /\ Called("add_phone", args, <<>>, r.exc, <<>>)
        /\ UNCHANGED pc

Call_remove_phone ==
    \E args \in RemovePhoneArgs :
        /\ find(book, args[1]) # <<>>
        /\ book' = Mutate(book, args[1], remove_phone(find(book, args[1])[1], args[2]))
        /\ Called("remove_phone", args, <<>>, NoExc, <<>>)
        /\ UNCHANGED pc

Call_edit_phone ==
    \E args \in EditPhoneArgs :
        /\ find(book, args[1]) # <<>>
        /\ book' = Mutate(book, args[1],
                          edit_phone(find(book, args[1])[1], args[2], args[3]))
        /\ Called("edit_phone", args, <<>>, NoExc, <<>>)
        /\ UNCHANGED pc

Call_Record_add_birthday ==
    \E args \in BirthdayArgs :
        /\ find(book, args[1]) # <<>>
        /\ LET r == Record_add_birthday(find(book, args[1])[1], args[2])
           IN  /\ book' = Mutate(book, args[1], r.self)
               /\ Called("Record.add_birthday", args, <<>>, r.exc, <<>>)
        /\ UNCHANGED pc

Call_add_contact ==
    \E args \in ContactArgs :
        LET r == add_contact(args, book)
        IN  /\ book' = r.book
            /\ Called("add_contact", args, <<>>, r.exc, r.ret)
            /\ UNCHANGED pc

Call_change_contact ==
    \E args \in ChangeArgs :
        LET r == change_contact(args, book)
        IN  /\ book' = r.book
            /\ Called("change_contact", args, <<>>, r.exc, r.ret)
            /\ UNCHANGED pc

NextAPI ==
    \/ Call_add_record
    \/ Call_find
    \/ Call_delete
    \/ Call_add_phone
    \/ Call_remove_phone
    \/ Call_edit_phone
    \/ Call_Record_add_birthday
    \/ Call_add_contact
    \/ Call_change_contact

SpecAPI == Init /\ [][NextAPI]_vars

(***************************************************************************)
(* Spec: the command loop of main().  One action per branch of the loop    *)
(* body; pc is "running" while the loop runs, "done" after the break,      *)
(* "crashed" after an exception nothing caught.                            *)
(***************************************************************************)
kw_close         == <<"c", "l", "o", "s", "e">>
kw_exit          == <<"e", "x", "i", "t">>
kw_hello         == <<"h", "e", "l", "l", "o">>
kw_add           == <<"a", "d", "d">>
kw_change        == <<"c", "h", "a", "n", "g", "e">>
kw_phone         == <<"p", "h", "o", "n", "e">>
kw_all           == <<"a", "l", "l">>
kw_add_birthday  == <<"a", "d", "d", "-", "b", "i", "r", "t", "h", "d", "a", "y">>
kw_show_birthday == <<"s", "h", "o", "w", "-", "b", "i", "r", "t", "h", "d", "a", "y">>
kw_birthdays     == <<"b", "i", "r", "t", "h", "d", "a", "y", "s">>

\* cmd, *args = user_input.split(); cmd = cmd.strip().lower().
\* A line without a field raises ValueError in the unpacking.
parse_input(user_input) ==
    LET fields == split(user_input)
    IN  IF Len(fields) = 0
        THEN [exc |-> "ValueError", cmd |-> <<>>, args |-> <<>>]
        ELSE [exc |-> NoExc, cmd |-> lower(fields[1]), args |-> Tail(fields)]

\* the branch of the if / elif chain that a command word selects
Branch(command) ==
    IF command \in {kw_close, kw_exit} THEN "exit"
    ELSE IF command = kw_hello THEN "hello"
    ELSE IF command = kw_add THEN "add"
    ELSE IF command = kw_change THEN "change"
    ELSE IF command = kw_phone THEN "phone"
    ELSE IF command = kw_all THEN "all"
    ELSE IF command = kw_add_birthday THEN "add-birthday"
    ELSE IF command = kw_show_birthday THEN "show-birthday"
    ELSE IF command = kw_birthdays THEN "birthdays"
    ELSE "invalid"

\* one iteration of the loop body on the line read: what becomes of the loop
\* (pc), what was printed (out), the exception that escaped (exc) and the book
main(user_input, today, b) ==
    LET p       == parse_input(user_input)
        say(t)  == [pc |-> "running", exc |-> NoExc, book |-> b,
                    out |-> <<[head |-> t, body |-> <<>>]>>]
        show(r) == IF r.exc # NoExc
                   THEN [pc |-> "crashed", exc |-> r.exc, out |-> <<>>, book |-> r.book]
                   ELSE [pc |-> "running", exc |-> NoExc, out |-> <<r.ret>>, book |-> r.book]
        branch  == IF p.exc # NoExc THEN "unpack" ELSE Branch(p.cmd)
    IN  CASE branch = "unpack" -> [pc |-> "crashed", exc |-> p.exc, out |-> <<>>, book |-> b]
          [] branch = "exit"   -> [say("Good bye!") EXCEPT !.pc = "done"]
          [] branch = "hello"  -> say("How can I help you?")
          [] branch = "add"    -> show(add_contact(p.args, b))
          [] branch = "change" -> show(change_contact(p.args, b))
          [] branch = "phone"  -> show(show_phone(p.args, b))
          [] branch = "all"    -> [pc |-> "running", exc |-> NoExc, book |-> b,
                                   out |-> show_all(b).printed]
          [] branch = "add-birthday"  -> show(add_birthday(p.args, b))
          [] branch = "show-birthday" -> show(show_birthday(p.args, b))
          [] branch = "birthdays"     -> show(birthdays(b, today))
          [] OTHER -> say("Invalid command.")

Line(fields) == JoinWith(fields, <<" ">>)

\* lines typed at the prompt
InputLines ==
    { <<>>, <<" ", "\t">>,
      Line(<<kw_exit>>), <<" ">> \o Line(<<kw_close>>) \o <<" ">>,
      Line(<<kw_hello>>), Line(<<<<"f", "o", "o">>, Al>>),
      Line(<<kw_add, Al, P1>>), Line(<<<<"A", "D", "D">>, Bo, P2>>),
      Line(<<kw_add, Al, PShort>>), Line(<<kw_add, Bo, PAlpha>>), Line(<<kw_add, Al>>),
      Line(<<kw_change, Al, P2>>), Line(<<kw_change, Al, PShort>>),
      Line(<<kw_change, Bo, P1>>), Line(<<kw_change, Al>>),
      Line(<<kw_phone, Al>>), Line(<<kw_phone, Bo>>), Line(<<kw_phone>>),
      Line(<<kw_all>>),
      Line(<<kw_add_birthday, Al, B14>>), Line(<<kw_add_birthday, Al, B20>>),
      Line(<<kw_add_birthday, Bo, B21>>), Line(<<kw_add_birthday, Bo, B14>>),
      Line(<<kw_add_birthday, Al, BFeb30>>), Line(<<kw_add_birthday, Al>>),
      Line(<<kw_show_birthday, Al>>), Line(<<kw_show_birthday, Bo>>),
      Line(<<kw_show_birthday>>),
      Line(<<kw_birthdays>>) }

\* readings of datetime.today(): each day of the week of Monday 01.01.2024,
\* at midnight and at noon.  Only the branch "birthdays" reads the clock.
TimesOfDay == {0, 43200}
Todays == {[ord |-> toordinal(2024, 1, d), tod |-> t] : d \in 1..7, t \in TimesOfDay}

\* the branch a line takes: "unpack" when parse_input raises
BranchOf(user_input) ==
    IF parse_input(user_input).exc # NoExc THEN "unpack"
    ELSE Branch(parse_input(user_input).cmd)

\* the lines that take each branch
LinesOf == [branch \in {"unpack", "exit", "hello", "add", "change", "phone", "all",
                        "add-birthday", "show-birthday", "birthdays", "invalid"} |->
               {l \in InputLines : BranchOf(l) = branch}]

Iteration(branch) ==
    \E user_input \in LinesOf[branch] :
      \E today \in (IF branch = "birthdays" THEN Todays ELSE {NoDay}) :
        LET r == main(user_input, today, book)
        IN     /\ book' = r.book
               /\ pc' = r.pc
               /\ last' = [op |-> "input", args |-> <<user_input>>, rec |-> <<>>,
                           out |-> [exc |-> r.exc, ret |-> r.out], pre |-> book,
                           today |-> today]

ReadUnpackable == pc = "running" /\ Iteration("unpack")
CmdExit == pc = "running" /\ Iteration("exit")
CmdHello == pc = "running" /\ Iteration("hello")
CmdAdd == pc = "running" /\ Iteration("add")
CmdChange == pc = "running" /\ Iteration("change")
CmdPhone == pc = "running" /\ Iteration("phone")
CmdAll == pc = "running" /\ Iteration("all")
CmdAddBirthday == pc = "running" /\ Iteration("add-birthday")
CmdShowBirthday == pc = "running" /\ Iteration("show-birthday")
CmdBirthdays == pc = "running" /\ Iteration("birthdays")
CmdInvalid == pc = "running" /\ Iteration("invalid")

Next ==
    \/ ReadUnpackable
    \/ CmdExit
    \/ CmdHello
    \/ CmdAdd
    \/ CmdChange
    \/ CmdPhone
    \/ CmdAll
    \/ CmdAddBirthday
    \/ CmdShowBirthday
    \/ CmdBirthdays
    \/ CmdInvalid

Spec == Init /\ [][Next]_vars

(***************************************************************************)
(* Properties                                                              *)
(***************************************************************************)
\* a string of exactly 10 decimal digits
TenDigits(s) == Len(s) = 10 /\ \A i \in 1..Len(s) : s[i] \in Range(DigitSeq)

\* the phone list of the record under name in the book b (<<>> if there is none)
PhonesOf(b, name) == IF find(b, name) = <<>> THEN <<>> ELSE find(b, name)[1].phones

\* the entries of the book b under keys other than name, in order
Others(b, name) == SelectSeq(b, LAMBDA e : e.key # name)

\* the branch of main() the last line took
LastBranch == IF last.op = "input" THEN BranchOf(last.args[1]) ELSE "none"

\* C1: edit_phone(old, new) with old present and new not a valid phone raises
\* ValueError and leaves the phone list unchanged; change_contact with a name
\* that is present and a phone that is not valid returns "Error: ..." and leaves
\* the book unchanged.
C1_EditPhoneRejectsInvalid ==
    /\ (last.op = "edit_phone"
          /\ \E i \in DOMAIN PhonesOf(last.pre, last.args[1]) :
                 PhonesOf(last.pre, last.args[1])[i] = last.args[2]
          /\ ~TenDigits(last.args[3]))
       => (last.out.exc = "ValueError" /\ book = last.pre)
    /\ (last.op = "change_contact"
          /\ Len(last.args) = 2
          /\ PhonesOf(last.pre, last.args[1]) # <<>>
          /\ ~TenDigits(last.args[2]))
       => (last.out.ret.head = "Error: " /\ book = last.pre)

\* C2: every phone stored in every record of the book is a string of exactly
\* 10 decimal digits, in every state the command loop reaches.
C2_AllPhonesTenDigits ==
    \A i \in DOMAIN book :
        \A j \in DOMAIN book[i].record.phones : TenDigits(book[i].record.phones[j])

\* C3: the window of the upcoming-birthdays query starts on a Monday and
\* ends on a Sunday, whatever the day of the week of the query.
C3_WindowIsMondayToSunday ==
    LastBranch = "birthdays"
    => /\ weekday(next_week_start(last.today)) = 0
       /\ weekday(next_week_end(last.today)) = 6

\* the entries the query owes: one per record with a birthday whose calendar
\* day lies between the day of next_week_start and the day of next_week_end,
\* both included, in iteration order
OwedEntries(b, today) ==
    LET owed(e) == /\ e.record.birthday # <<>>
                   /\ next_week_start(today).ord <= strptime(e.record.birthday[1]).dt.ord
                   /\ strptime(e.record.birthday[1]).dt.ord <= next_week_end(today).ord
        sel     == SelectSeq(b, owed)
    IN  [i \in DOMAIN sel |-> sel[i].key \o <<":", " ">> \o sel[i].record.birthday[1]]

\* C4: the upcoming-birthdays query lists, in iteration order, exactly the
\* records with a birthday on a day from the window's first day to its last
\* day, both included, at whatever time of day it is asked.
C4_UpcomingIsInclusiveByDay ==
    LastBranch = "birthdays"
    => /\ last.out.exc = NoExc
       /\ last.out.ret[1].body = OwedEntries(last.pre, last.today)

\* C5: after add_record(r), find(r.name) returns r and nothing of a record that
\* was there before under that name; the name has a single entry; the entries
\* under other names are unchanged.  add_contact(name, phone) with a valid
\* phone leaves under name a record with that phone only and no birthday.
C5_AddRecordOverwrites ==
    /\ last.op = "add_record"
       => LET r == last.rec[1]
          IN  /\ find(book, r.name) = <<r>>
              /\ Cardinality({i \in DOMAIN book : book[i].key = r.name}) = 1
              /\ Others(book, r.name) = Others(last.pre, r.name)
    /\ (last.op = "add_contact" /\ last.out.ret.head = "Contact added: ")
       => /\ find(book, last.args[1])
               = <<[name |-> last.args[1], phones |-> <<last.args[2]>>, birthday |-> <<>>]>>
          /\ Cardinality({i \in DOMAIN book : book[i].key = last.args[1]}) = 1
          /\ Others(book, last.args[1]) = Others(last.pre, last.args[1])

\* add_record replaced a record that had phones and a birthday by one that has
\* none of them, while another name was in the book
C5_Witness ==
    /\ last.op = "add_record"
    /\ find(last.pre, last.rec[1].name) # <<>>
    /\ find(last.pre, last.rec[1].name)[1].birthday # <<>>
    /\ Len(find(last.pre, last.rec[1].name)[1].phones) = 2
    /\ last.rec[1].phones = <<>>
    /\ Others(last.pre, last.rec[1].name) # <<>>

\* C6: delete(name) of an absent name leaves the book unchanged; after
\* delete(name) find(name) is None; the entries under other names are
\* unchanged; no error is raised.
C6_DeleteFrame ==
    last.op = "delete"
    => /\ last.out.exc = NoExc
       /\ find(last.pre, last.args[1]) = <<>> => book = last.pre
       /\ find(book, last.args[1]) = <<>>
       /\ Others(book, last.args[1]) = Others(last.pre, last.args[1])

\* delete removed a name that was first in a book of two
C6_Witness ==
    /\ last.op = "delete"
    /\ Len(last.pre) = 2
    /\ last.pre[1].key = last.args[1]
    /\ Len(book) = 1

\* C7: an add_phone that raises leaves the phone list (and the book) unchanged,
\* and add_phone raises for every phone that is not 10 digits; an add_birthday
\* of Record that raises leaves the birthday unchanged, and it raises for a date
\* that does not exist; add_contact with a phone that is not 10 digits returns
\* "Error: ..." and leaves the book unchanged.
C7_NoPartialApplication ==
    /\ last.op = "add_phone"
       => /\ ~TenDigits(last.args[2]) => last.out.exc = "ValueError"
          /\ last.out.exc # NoExc => book = last.pre
    /\ last.op = "Record.add_birthday"
       => /\ last.args[2] = BFeb30 => last.out.exc = "ValueError"
          /\ last.out.exc # NoExc => book = last.pre
    /\ (last.op = "add_contact" /\ Len(last.args) = 2 /\ ~TenDigits(last.args[2]))
       => (last.out.exc = NoExc /\ last.out.ret.head = "Error: " /\ book = last.pre)

\* add_phone was refused on a record that has a phone
C7_Witness ==
    /\ last.op = "add_phone"
    /\ last.out.exc = "ValueError"
    /\ Len(PhonesOf(last.pre, last.args[1])) = 1

\* C8: the loop ends only by the branch of exit / close, and no line makes an
\* exception escape.
C8_OnlyExitTerminates ==
    pc # "running" => (pc = "done" /\ LastBranch = "exit" /\ last.out.exc = NoExc)

\* C9: edit_phone(old, new) with a valid new raises nothing; if old occurs it
\* puts new in place of the first occurrence and leaves every other position
\* as it was; if old does not occur the list is unchanged.  The rest of the
\* book is unchanged.
C9_EditPhoneFrame ==
    (last.op = "edit_phone" /\ TenDigits(last.args[3]))
    => LET before == PhonesOf(last.pre, last.args[1])
           after  == PhonesOf(book, last.args[1])
           old    == last.args[2]
       IN  /\ last.out.exc = NoExc
           /\ Len(after) = Len(before)
           /\ (\E i \in DOMAIN before : before[i] = old)
              => \E i \in DOMAIN before :
                     /\ before[i] = old
                     /\ \A j \in 1..(i - 1) : before[j] # old
                     /\ after = [before EXCEPT ![i] = last.args[3]]
           /\ (\A i \in DOMAIN before : before[i] # old) => after = before
           /\ Others(book, last.args[1]) = Others(last.pre, last.args[1])
           /\ find(book, last.args[1])[1].birthday = find(last.pre, last.args[1])[1].birthday

\* edit_phone replaced the first of two equal phones by a different one
C9_Witness ==
    /\ last.op = "edit_phone"
    /\ TenDigits(last.args[3])
    /\ last.args[2] # last.args[3]
    /\ PhonesOf(last.pre, last.args[1]) = <<last.args[2], last.args[2]>>
    /\ PhonesOf(book, last.args[1]) = <<last.args[3], last.args[2]>>

\* C10: in the command loop every record of the book has exactly one phone, and
\* no IndexError comes out of record.phones[0].
C10_ExactlyOnePhone ==
    /\ \A i \in DOMAIN book : Len(book[i].record.phones) = 1
    /\ last.out.exc # "IndexError"

\* the command change or phone ran on a record that was found
C10_Witness ==
    /\ LastBranch \in {"change", "phone"}
    /\ Len(parse_input(last.args[1]).args) >= 1
    /\ find(last.pre, parse_input(last.args[1]).args[1]) # <<>>
    /\ Len(book) = 2

====
